---------------------------- MODULE Spec2Model ----------------------------
(***************************************************************************)
(* A model of the notebook using-pre-trained-word-embeddings-in-a-keras-   *)
(* model.ipynb: the corpus loader, the tokenizer / sequence encoder cell,  *)
(* the embedding-file parser and the embedding matrix builder.             *)
(*                                                                         *)
(* Strings are sequences of code points (10 = "\n", 32 = " ", 49 = "1",    *)
(* 66 = "B", 98 = "b", ...), so that find, lower, isdigit, split and the   *)
(* lexicographic order of sorted() are computed, not assumed.              *)
(*                                                                         *)
(* Three specifications share the variables, one per pipeline stage:       *)
(*   SpecLoad    the loader loop and the to_categorical call on its labels *)
(*   SpecEncode  fit_on_texts, texts_to_sequences, pad_sequences           *)
(*   SpecEmbed   the embedding file parser and the matrix builder          *)
(* Each starts from the inputs its stage can receive.                      *)
(***************************************************************************)
EXTENDS Integers, Sequences, FiniteSets, TLC

VARIABLES
    pc,                  \* the statement the notebook executes next
    err,                 \* the exception that stopped the run, or "none"
    corpus,              \* the directory tree under TEXT_DATA_DIR
    raw,                 \* what f.read() returned, one entry per file opened
    ni,                  \* position of the loader's outer loop in sorted(os.listdir(TEXT_DATA_DIR))
    texts,               \* list of text samples
    labels_index,        \* dictionary mapping label name to numeric id
    labels,              \* list of label ids; the one-hot matrix after to_categorical
    MAX_NUM_WORDS,
    MAX_SEQUENCE_LENGTH,
    EMBEDDING_DIM,
    word_index,          \* tokenizer.word_index
    sequences,
    data,
    embeddings_index,
    num_words,
    embedding_matrix,
    bi,                  \* position of the builder's loop in word_index.items()
    runs,                \* how many times the builder cell has been started
    first_matrix,        \* the embedding_matrix the first run of the builder left
    indices,             \* np.arange(data.shape[0]), shuffled
    num_validation_samples,
    x_train,
    y_train,
    x_val,
    y_val,
    embedding_layer,     \* the layer object the name embedding_layer is bound to
    layers,              \* the Embedding layer objects created so far
    model                \* the Model the last training cell built

vars == <<pc, err, corpus, raw, ni, texts, labels_index, labels, MAX_NUM_WORDS,
          MAX_SEQUENCE_LENGTH, EMBEDDING_DIM, word_index, sequences, data,
          embeddings_index, num_words, embedding_matrix, bi, runs, first_matrix,
          indices, num_validation_samples, x_train, y_train, x_val, y_val,
          embedding_layer, layers, model>>

loadVars == <<corpus, raw, ni, texts, labels_index, labels>>
encodeVars == <<sequences, data>>
embedVars == <<embeddings_index, num_words, embedding_matrix, bi>>
rebuildVars == <<runs, first_matrix>>
splitVars == <<indices, num_validation_samples, x_train, y_train, x_val, y_val>>
layerVars == <<embedding_layer, layers, model>>
laterVars == <<rebuildVars, splitVars, layerVars>>

\* the variables of the later cells before any of them ran
LaterCellsInit ==
    /\ runs = 1
    /\ first_matrix = <<>>
    /\ indices = <<>>
    /\ num_validation_samples = 0
    /\ x_train = <<>>
    /\ y_train = <<>>
    /\ x_val = <<>>
    /\ y_val = <<>>
    /\ embedding_layer = 0
    /\ layers = <<>>
    /\ model = 0

-----------------------------------------------------------------------------
(* Bounds of the model. *)

MaxTextLen == 5          \* longest file text, in characters
MaxNumWords == 3         \* MAX_NUM_WORDS ranges over 1..MaxNumWords
MaxSeqLen == 2           \* MAX_SEQUENCE_LENGTH ranges over 1..MaxSeqLen
MaxDim == 2              \* EMBEDDING_DIM and coefficient counts range up to MaxDim
MaxRows == 5             \* the split is run on 1..MaxRows samples

-----------------------------------------------------------------------------
(* Strings. *)

NL == 10                 \* "\n"
SP == 32                 \* " "

Min(a, b) == IF a < b THEN a ELSE b

EmptyDict == [x \in {} |-> 0]

\* s < t in Python's string order (code point by code point, a proper prefix first)
StrLess(s, t) ==
    \E k \in 0..Min(Len(s), Len(t)) :
        /\ \A j \in 1..k : s[j] = t[j]
        /\ \/ (k = Len(s) /\ k < Len(t))
           \/ (k < Len(s) /\ k < Len(t) /\ s[k + 1] < t[k + 1])

RECURSIVE sorted(_)
\* sorted(S) of a set of strings
sorted(S) ==
    IF S = {} THEN <<>>
    ELSE LET m == CHOOSE x \in S : \A y \in S \ {x} : StrLess(x, y)
         IN  <<m>> \o sorted(S \ {m})

\* str.isdigit() on ASCII names
isdigit(s) == Len(s) > 0 /\ \A k \in 1..Len(s) : s[k] \in 48..57

\* t.find('\n\n'): the lowest offset of a double newline, -1 when there is none
find(t) ==
    LET hits == {i \in 0..(Len(t) - 2) : t[i + 1] = NL /\ t[i + 2] = NL}
    IN  IF hits = {} THEN -1 ELSE CHOOSE i \in hits : \A j \in hits : i <= j

\* mutant: the slice starts after the blank line
SkipHeaderPastBlank(t) ==
    LET i == find(t) IN IF 0 < i THEN SubSeq(t, i + 3, Len(t)) ELSE t

\* i = t.find('\n\n'); if 0 < i: t = t[i:]
SkipHeader(t) ==
    LET i == find(t) IN IF 0 < i THEN SubSeq(t, i + 1, Len(t)) ELSE t

-----------------------------------------------------------------------------
(* The corpus directory. *)

Chars == {NL, 66}                       \* "\n", "B"
FileTexts == UNION {[1..n -> Chars] : n \in 0..MaxTextLen}

RootNames == {<<97>>, <<98>>}           \* "a", "b"
FileNames == {<<49>>, <<49, 120>>}      \* "1", "1x"

\* the files of one subdirectory: name -> text; a file the loader never opens
\* is carried with the empty text
DirFiles ==
    UNION {{f \in [S -> FileTexts] : \A n \in S : ~isdigit(n) => f[n] = <<>>} :
           S \in SUBSET FileNames}

Entries == {[isdir |-> FALSE, files |-> EmptyDict]} \cup
           {[isdir |-> TRUE, files |-> f] : f \in DirFiles}

Corpora == UNION {[S -> Entries] : S \in SUBSET RootNames}

-----------------------------------------------------------------------------
(* The corpus loader. *)

\* sorted(os.listdir(TEXT_DATA_DIR))
RootListing == sorted(DOMAIN corpus)

\* mutant: the label id is the entry's position in the listing
PositionAsLabelId(index) == ni - 1

\* label_id = len(labels_index)
NewLabelId(index) == Cardinality(DOMAIN index)

RECURSIVE OpenedFiles(_, _)
\* the inner loop: the f.read() results for the names that pass fname.isdigit()
OpenedFiles(files, fnames) ==
    IF fnames = <<>> THEN <<>>
    ELSE (IF isdigit(Head(fnames)) THEN <<files[Head(fnames)]>> ELSE <<>>)
         \o OpenedFiles(files, Tail(fnames))

\* one iteration of "for name in sorted(os.listdir(TEXT_DATA_DIR))"
VisitEntry ==
    /\ pc = "load"
    /\ ni <= Len(RootListing)
    /\ LET name == RootListing[ni]
           label_id == NewLabelId(labels_index)
           read == OpenedFiles(corpus[name].files, sorted(DOMAIN corpus[name].files))
       IN  IF corpus[name].isdir
           THEN /\ labels_index' = (name :> label_id) @@ labels_index
                /\ raw' = raw \o read
                /\ texts' = texts \o [k \in 1..Len(read) |-> SkipHeader(read[k])]
                /\ labels' = labels \o [k \in 1..Len(read) |-> label_id]
           ELSE UNCHANGED <<labels_index, raw, texts, labels>>
    /\ ni' = ni + 1
    /\ UNCHANGED <<pc, err, corpus, MAX_NUM_WORDS, MAX_SEQUENCE_LENGTH,
                   EMBEDDING_DIM, laterVars, word_index, encodeVars, embedVars>>

\* the loop is exhausted; the next cell runs. Its tokenizer statements neither
\* read nor write labels, so this stage continues at the to_categorical call
LoadDone ==
    /\ pc = "load"
    /\ ni > Len(RootListing)
    /\ pc' = "to_categorical"
    /\ UNCHANGED <<err, loadVars, MAX_NUM_WORDS, MAX_SEQUENCE_LENGTH,
                   EMBEDDING_DIM, laterVars, word_index, encodeVars, embedVars>>

RECURSIVE MaxOf(_)
MaxOf(s) == IF Len(s) = 1 THEN s[1]
            ELSE LET m == MaxOf(Tail(s)) IN IF s[1] > m THEN s[1] ELSE m

\* keras.utils.to_categorical(y) with num_classes=None: num_classes = max(y) + 1
to_categorical(y) ==
    LET num_classes == MaxOf(y) + 1
    IN  [k \in 1..Len(y) |-> [c \in 1..num_classes |-> IF c = y[k] + 1 THEN 1 ELSE 0]]

\* labels = to_categorical(np.asarray(labels)); np.max of an empty array raises
ToCategorical ==
    /\ pc = "to_categorical"
    /\ IF labels = <<>>
       THEN /\ err' = "to_categorical: ValueError"
            /\ pc' = "stopped"
            /\ UNCHANGED labels
       ELSE /\ labels' = to_categorical(labels)
            /\ pc' = "labelled"
            /\ UNCHANGED err
    /\ UNCHANGED <<corpus, raw, ni, texts, labels_index, MAX_NUM_WORDS,
                   MAX_SEQUENCE_LENGTH, EMBEDDING_DIM, laterVars, word_index, encodeVars, embedVars>>

InitLoad ==
    /\ pc = "load"
    /\ err = "none"
    /\ corpus \in Corpora
    /\ raw = <<>>
    /\ ni = 1
    /\ texts = <<>>
    /\ labels_index = EmptyDict
    /\ labels = <<>>
    /\ MAX_NUM_WORDS = 1
    /\ MAX_SEQUENCE_LENGTH = 1
    /\ EMBEDDING_DIM = 1
    /\ word_index = EmptyDict
    /\ sequences = <<>>
    /\ data = <<>>
    /\ embeddings_index = EmptyDict
    /\ num_words = 0
    /\ embedding_matrix = <<>>
    /\ bi = 1
    /\ LaterCellsInit

NextLoad == VisitEntry \/ LoadDone \/ ToCategorical

SpecLoad == InitLoad /\ [][NextLoad]_vars

-----------------------------------------------------------------------------
(* The tokenizer and the sequence encoder (keras.preprocessing).            *)

\* Tokenizer's default filters: !"#$%&()*+,-./:;<=>?@[\]^_`{|}~ and \t, \n
Filters == {9, NL} \cup (33..38) \cup (40..47) \cup (58..64) \cup (91..96) \cup (123..126)

\* str.lower() on ASCII
lower(c) == IF c \in 65..90 THEN c + 32 ELSE c

RECURSIVE split(_, _, _)
\* str.split(sep) for a one-character sep: the pieces between separators, empty ones included
split(s, sep, piece) ==
    IF s = <<>> THEN <<piece>>
    ELSE IF Head(s) = sep THEN <<piece>> \o split(Tail(s), sep, <<>>)
    ELSE split(Tail(s), sep, Append(piece, Head(s)))

\* text_to_word_sequence(text, filters, lower=True, split=' ')
text_to_word_sequence(text) ==
    LET lowered == [k \in 1..Len(text) |-> lower(text[k])]
        translated == [k \in 1..Len(text) |-> IF lowered[k] \in Filters THEN SP ELSE lowered[k]]
    IN  SelectSeq(split(translated, SP, <<>>), LAMBDA w : w # <<>>)

RECURSIVE CountWords(_, _)
\* "for w in seq": word_counts is an OrderedDict, here a list of (w, c) in insertion order
CountWords(seq, word_counts) ==
    IF seq = <<>> THEN word_counts
    ELSE LET w == Head(seq)
             known == \E k \in 1..Len(word_counts) : word_counts[k].w = w
             bumped == [k \in 1..Len(word_counts) |->
                          IF word_counts[k].w = w
                          THEN [w |-> w, c |-> word_counts[k].c + 1]
                          ELSE word_counts[k]]
         IN  CountWords(Tail(seq), IF known THEN bumped ELSE Append(word_counts, [w |-> w, c |-> 1]))

RECURSIVE FitCounts(_, _)
\* "for text in texts" of fit_on_texts
FitCounts(ts, word_counts) ==
    IF ts = <<>> THEN word_counts
    ELSE FitCounts(Tail(ts), CountWords(text_to_word_sequence(Head(ts)), word_counts))

\* mutant: an unstable sort that puts a later word before earlier ones of equal count
InsertBeforeEqual(s, x) ==
    LET p == Cardinality({k \in 1..Len(s) : s[k].c > x.c})
    IN  SubSeq(s, 1, p) \o <<x>> \o SubSeq(s, p + 1, Len(s))

\* one insertion of the stable descending sort: x goes after every entry with count >= x.c
InsertDesc(s, x) ==
    LET p == Cardinality({k \in 1..Len(s) : s[k].c >= x.c})
    IN  SubSeq(s, 1, p) \o <<x>> \o SubSeq(s, p + 1, Len(s))

RECURSIVE SortByCount(_)
\* wcounts.sort(key=lambda x: x[1], reverse=True): stable, descending count
SortByCount(wcounts) ==
    IF wcounts = <<>> THEN <<>>
    ELSE InsertDesc(SortByCount(SubSeq(wcounts, 1, Len(wcounts) - 1)), wcounts[Len(wcounts)])

\* word_index = dict(zip(sorted_voc, range(1, len(sorted_voc) + 1)))
ZipIndex(sorted_voc) ==
    [w \in {sorted_voc[k].w : k \in 1..Len(sorted_voc)} |->
        CHOOSE k \in 1..Len(sorted_voc) : sorted_voc[k].w = w]

\* Tokenizer.fit_on_texts(texts): the resulting word_index
fit_on_texts(ts) == ZipIndex(SortByCount(FitCounts(ts, <<>>)))

\* mutant: an index equal to num_words is kept
SkipsAbove(i, nw) == nw # 0 /\ i > nw

\* "if num_words and i >= num_words: continue"
Skips(i, nw) == nw # 0 /\ i >= nw

RECURSIVE Vectorize(_, _, _)
\* "for w in seq" of texts_to_sequences
Vectorize(seq, index, nw) ==
    IF seq = <<>> THEN <<>>
    ELSE LET w == Head(seq)
             rest == Vectorize(Tail(seq), index, nw)
         IN  IF w \notin DOMAIN index THEN rest
             ELSE IF Skips(index[w], nw) THEN rest
             ELSE <<index[w]>> \o rest

\* Tokenizer.texts_to_sequences(texts)
texts_to_sequences(ts, index, nw) ==
    [k \in 1..Len(ts) |-> Vectorize(text_to_word_sequence(ts[k]), index, nw)]

\* mutant: truncating='post', the first maxlen entries are kept
TruncatePost(s, maxlen) == SubSeq(s, 1, Min(Len(s), maxlen))

\* truncating='pre': trunc = s[-maxlen:]
Truncate(s, maxlen) ==
    IF Len(s) > maxlen THEN SubSeq(s, Len(s) - maxlen + 1, Len(s)) ELSE s

\* mutant: the sequence is stored without padding
PlaceUnpadded(trunc, maxlen) == trunc

\* padding='pre': x[idx, -len(trunc):] = trunc on a row of value 0
Place(trunc, maxlen) ==
    [j \in 1..maxlen |->
        IF j <= maxlen - Len(trunc) THEN 0 ELSE trunc[j - (maxlen - Len(trunc))]]

\* pad_sequences(sequences, maxlen): an empty sequence leaves its row at 0
pad_sequences(seqs, maxlen) ==
    [k \in 1..Len(seqs) |->
        IF Len(seqs[k]) = 0 THEN [j \in 1..maxlen |-> 0]
        ELSE Place(Truncate(seqs[k], maxlen), maxlen)]

\* tokenizer.fit_on_texts(texts); word_index = tokenizer.word_index
FitOnTexts ==
    /\ pc = "fit_on_texts"
    /\ word_index' = fit_on_texts(texts)
    /\ pc' = "texts_to_sequences"
    /\ UNCHANGED <<err, loadVars, MAX_NUM_WORDS, MAX_SEQUENCE_LENGTH, EMBEDDING_DIM, laterVars,
                   encodeVars, embedVars>>

\* sequences = tokenizer.texts_to_sequences(texts)
TextsToSequences ==
    /\ pc = "texts_to_sequences"
    /\ sequences' = texts_to_sequences(texts, word_index, MAX_NUM_WORDS)
    /\ pc' = "pad_sequences"
    /\ UNCHANGED <<err, loadVars, MAX_NUM_WORDS, MAX_SEQUENCE_LENGTH, EMBEDDING_DIM, laterVars,
                   word_index, data, embedVars>>

\* data = pad_sequences(sequences, maxlen=MAX_SEQUENCE_LENGTH)
PadSequences ==
    /\ pc = "pad_sequences"
    /\ data' = pad_sequences(sequences, MAX_SEQUENCE_LENGTH)
    /\ pc' = "encoded"
    /\ UNCHANGED <<err, loadVars, MAX_NUM_WORDS, MAX_SEQUENCE_LENGTH, EMBEDDING_DIM, laterVars,
                   word_index, sequences, embedVars>>

\* the texts the loader can record, and the lists of them it can build from Corpora
RecordedTexts == {SkipHeader(t) : t \in FileTexts}
MaxSamples == Cardinality(RootNames) * Cardinality({n \in FileNames : isdigit(n)})
TextLists == UNION {[1..n -> RecordedTexts] : n \in 0..MaxSamples}

\* the encoder stage on any list of recorded texts; the variables the stage does
\* not read are held at their initial values
InitEncode ==
    /\ pc = "fit_on_texts"
    /\ err = "none"
    /\ corpus = EmptyDict
    /\ raw = <<>>
    /\ ni = 1
    /\ texts \in TextLists
    /\ labels_index = EmptyDict
    /\ labels = <<>>
    /\ MAX_NUM_WORDS \in 1..MaxNumWords
    /\ MAX_SEQUENCE_LENGTH \in 1..MaxSeqLen
    /\ EMBEDDING_DIM = 1
    /\ word_index = EmptyDict
    /\ sequences = <<>>
    /\ data = <<>>
    /\ embeddings_index = EmptyDict
    /\ num_words = 0
    /\ embedding_matrix = <<>>
    /\ bi = 1
    /\ LaterCellsInit

NextEncode == FitOnTexts \/ TextsToSequences \/ PadSequences

SpecEncode == InitEncode /\ [][NextEncode]_vars

-----------------------------------------------------------------------------
(* The pre-trained embedding index and the embedding matrix builder.        *)

\* A line of the embedding file is given as values = line.split(): its tokens.
EmbWords == {<<98>>, <<98, 98>>}                 \* "b", "bb"
CoefTokens == {<<49>>, <<50>>, <<120>>}          \* "1", "2", "x"
Lines == {<<>>} \cup
         {<<w>> \o c : w \in EmbWords, c \in UNION {[1..n -> CoefTokens] : n \in 0..MaxDim}}

RECURSIVE float32(_)
\* the value of a token made of decimal digits
float32(tok) ==
    IF tok = <<>> THEN 0
    ELSE 10 * float32(SubSeq(tok, 1, Len(tok) - 1)) + (tok[Len(tok)] - 48)

\* whether np.asarray(values[1:], dtype='float32') accepts every token
\* (the tokens of the model are digit strings or not numbers at all)
AllNumeric(toks) == \A k \in 1..Len(toks) : isdigit(toks[k])

\* one iteration of "for line in f"
ParseLine ==
    /\ pc = "parse"
    /\ \E values \in Lines :
        IF values = <<>>
        THEN /\ err' = "parse: IndexError"   \* word = values[0]
             /\ pc' = "stopped"
             /\ UNCHANGED embeddings_index
        ELSE IF ~AllNumeric(Tail(values))
        THEN /\ err' = "parse: ValueError"   \* np.asarray(..., dtype='float32')
             /\ pc' = "stopped"
             /\ UNCHANGED embeddings_index
        ELSE /\ embeddings_index' =
                    (values[1] :> [k \in 1..(Len(values) - 1) |-> float32(values[k + 1])])
                    @@ embeddings_index
             /\ UNCHANGED <<pc, err>>
    /\ UNCHANGED <<loadVars, MAX_NUM_WORDS, MAX_SEQUENCE_LENGTH, EMBEDDING_DIM, laterVars,
                   word_index, encodeVars, num_words, embedding_matrix, bi>>

\* the file is exhausted; the next cell runs
EndOfFile ==
    /\ pc = "parse"
    /\ pc' = "allocate"
    /\ UNCHANGED <<err, loadVars, MAX_NUM_WORDS, MAX_SEQUENCE_LENGTH, EMBEDDING_DIM, laterVars,
                   word_index, encodeVars, embedVars>>

\* mutant: the row for index 0 is forgotten
NumWordsNoPad(max_words, index) == Min(max_words, Cardinality(DOMAIN index))

\* num_words = min(MAX_NUM_WORDS, len(word_index) + 1)
NumWords(max_words, index) == Min(max_words, Cardinality(DOMAIN index) + 1)

\* np.zeros((rows, cols)), rows numbered from 0
zeros(rows, cols) == [r \in 0..(rows - 1) |-> [c \in 1..cols |-> 0]]

\* num_words = ...; embedding_matrix = np.zeros((num_words, EMBEDDING_DIM))
Allocate ==
    /\ pc = "allocate"
    /\ num_words' = NumWords(MAX_NUM_WORDS, word_index)
    /\ embedding_matrix' = zeros(num_words', EMBEDDING_DIM)
    /\ bi' = 1
    /\ pc' = "build"
    /\ UNCHANGED <<err, loadVars, MAX_NUM_WORDS, MAX_SEQUENCE_LENGTH, EMBEDDING_DIM, laterVars,
                   word_index, encodeVars, embeddings_index>>

\* word_index.items() in dictionary order, the order fit_on_texts inserted them
Items(index) ==
    [k \in 1..Cardinality(DOMAIN index) |-> CHOOSE w \in DOMAIN index : index[w] = k]

\* "if i >= MAX_NUM_WORDS: continue"
OverBudget(i) == i >= MAX_NUM_WORDS

\* mutant: the vector is taken out of the dictionary, embeddings_index.pop(word, None)
AfterPop(index, word) == [w \in DOMAIN index \ {word} |-> index[w]]

\* the dictionary after embeddings_index.get(word): a lookup leaves it as it was
AfterGet(index, word) == index

\* one iteration of "for word, i in word_index.items()"; numpy raises IndexError
\* for a row that does not exist, broadcasts a vector of one element over the
\* row, and raises ValueError for any other length that is not the row's
BuildRow ==
    /\ pc = "build"
    /\ bi <= Cardinality(DOMAIN word_index)
    /\ LET word == Items(word_index)[bi]
           i == word_index[word]
           cols == EMBEDDING_DIM
       IN  IF OverBudget(i) \/ word \notin DOMAIN embeddings_index
           THEN /\ bi' = bi + 1
                /\ UNCHANGED <<pc, err, embedding_matrix>>
           ELSE LET embedding_vector == embeddings_index[word]
                IN  IF i \notin DOMAIN embedding_matrix
                    THEN /\ err' = "build: IndexError"
                         /\ pc' = "stopped"
                         /\ UNCHANGED <<bi, embedding_matrix>>
                    ELSE IF Len(embedding_vector) = cols
                    THEN /\ embedding_matrix' =
                               [embedding_matrix EXCEPT ![i] = embedding_vector]
                         /\ bi' = bi + 1
                         /\ UNCHANGED <<pc, err>>
                    ELSE IF Len(embedding_vector) = 1
                    THEN /\ embedding_matrix' =
                               [embedding_matrix EXCEPT
                                   ![i] = [c \in 1..cols |-> embedding_vector[1]]]
                         /\ bi' = bi + 1
                         /\ UNCHANGED <<pc, err>>
                    ELSE /\ err' = "build: ValueError"
                         /\ pc' = "stopped"
                         /\ UNCHANGED <<bi, embedding_matrix>>
    /\ embeddings_index' =
           IF OverBudget(word_index[Items(word_index)[bi]]) THEN embeddings_index
           ELSE AfterGet(embeddings_index, Items(word_index)[bi])
    /\ UNCHANGED <<loadVars, MAX_NUM_WORDS, MAX_SEQUENCE_LENGTH, EMBEDDING_DIM, laterVars,
                   word_index, encodeVars, num_words>>

\* the loop is exhausted
BuildDone ==
    /\ pc = "build"
    /\ bi > Cardinality(DOMAIN word_index)
    /\ pc' = "built"
    /\ UNCHANGED <<err, loadVars, MAX_NUM_WORDS, MAX_SEQUENCE_LENGTH, EMBEDDING_DIM, laterVars,
                   word_index, encodeVars, embedVars>>

\* the vocabularies fit_on_texts can leave: the words of a corpus numbered 1..V
VocabWords == {<<98>>, <<98, 98>>, <<98, 98, 98>>}      \* "b", "bb", "bbb"
WordIndexes ==
    UNION {{f \in [S -> 1..Cardinality(S)] : \A v, w \in S : f[v] = f[w] => v = w} :
           S \in SUBSET VocabWords}

\* the embedding stage on any vocabulary; the embedding file is read line by line
InitEmbed ==
    /\ pc = "parse"
    /\ err = "none"
    /\ corpus = EmptyDict
    /\ raw = <<>>
    /\ ni = 1
    /\ texts = <<>>
    /\ labels_index = EmptyDict
    /\ labels = <<>>
    /\ MAX_NUM_WORDS \in 1..MaxNumWords
    /\ MAX_SEQUENCE_LENGTH = 1
    /\ EMBEDDING_DIM \in 1..MaxDim
    /\ word_index \in WordIndexes
    /\ sequences = <<>>
    /\ data = <<>>
    /\ embeddings_index = EmptyDict
    /\ num_words = 0
    /\ embedding_matrix = <<>>
    /\ bi = 1
    /\ LaterCellsInit

NextEmbed == ParseLine \/ EndOfFile \/ Allocate \/ BuildRow \/ BuildDone

SpecEmbed == InitEmbed /\ [][NextEmbed]_vars

\* the builder cell is executed a second time on what the first run left
RunBuilderAgain ==
    /\ pc = "built"
    /\ runs = 1
    /\ runs' = 2
    /\ first_matrix' = embedding_matrix
    /\ pc' = "allocate"
    /\ UNCHANGED <<err, loadVars, MAX_NUM_WORDS, MAX_SEQUENCE_LENGTH, EMBEDDING_DIM,
                   splitVars, layerVars, word_index, encodeVars, embedVars>>

NextRebuild == NextEmbed \/ RunBuilderAgain

\* the embedding stage with the builder cell run twice
SpecRebuild == InitEmbed /\ [][NextRebuild]_vars

-----------------------------------------------------------------------------
(* Properties of the loader, checked under SpecLoad.                        *)

\* offset i (from 0) of t starts a double newline
DoubleNewlineAt(t, i) == i + 2 <= Len(t) /\ t[i + 1] = NL /\ t[i + 2] = NL

\* offset i is the first occurrence of a double newline in t
FirstDoubleNewline(t, i) ==
    DoubleNewlineAt(t, i) /\ \A j \in 0..(i - 1) : ~DoubleNewlineAt(t, j)

\* C5: header stripping. If the first double newline of a file's text is at
\* offset i > 0, the recorded text is the suffix that starts at that double
\* newline; with no double newline, or the first one at offset 0, the recorded
\* text is the file's text unchanged. "B\n\nB" is recorded as "\n\nB".
C5_HeaderStrip ==
    /\ Len(texts) = Len(raw)
    /\ \A k \in 1..Len(raw) :
        LET t == raw[k]
            r == texts[k]
        IN  /\ \A i \in 1..Len(t) :
                   FirstDoubleNewline(t, i) =>
                       /\ Len(r) = Len(t) - i
                       /\ \A j \in 1..Len(r) : r[j] = t[i + j]
            /\ (~\E i \in 1..Len(t) : FirstDoubleNewline(t, i)) => r = t
            /\ t = <<66, NL, NL, 66>> => r = <<NL, NL, 66>>

\* C5 witness: a file with a header, one whose text starts with the blank line
\* and one without a blank line have been recorded
C5_Witness ==
    /\ \E k \in 1..Len(raw) : raw[k] = <<66, NL, NL, 66>> /\ texts[k] = <<NL, NL, 66>>
    /\ \E k \in 1..Len(raw) :
           \/ (raw[k] = <<NL, NL, 66>> /\ texts[k] = raw[k])
           \/ (raw[k] = <<66, NL, 66>> /\ texts[k] = raw[k])

\* the subdirectories among the entries the loop has visited
VisitedDirs == {RootListing[j] : j \in {x \in 1..(ni - 1) : corpus[RootListing[x]].isdir}}

\* the (subdirectory, file) pairs of the visited part whose file name is all digits
DigitFiles ==
    {<<d, f>> \in VisitedDirs \X FileNames :
        /\ f \in DOMAIN corpus[d].files
        /\ Len(f) > 0
        /\ \A k \in 1..Len(f) : f[k] \in 48..57}

\* C6: the loader visits the root's entries in lexicographic order and numbers
\* the subdirectories in first-seen order: the ids are distinct, are exactly
\* 0..k-1, grow with the name's order (the smallest name has id 0); an entry
\* that is no directory gets no id; only all-digit file names produce a sample.
C6_LabelIds ==
    /\ DOMAIN labels_index = VisitedDirs
    /\ {labels_index[n] : n \in DOMAIN labels_index} = 0..(Cardinality(VisitedDirs) - 1)
    /\ \A n, m \in DOMAIN labels_index :
           StrLess(n, m) => labels_index[n] < labels_index[m]
    /\ \A j \in 1..(Len(RootListing) - 1) : StrLess(RootListing[j], RootListing[j + 1])
    /\ Len(texts) = Cardinality(DigitFiles)
    /\ pc # "load" => ni = Cardinality(DOMAIN corpus) + 1

\* C6 witness: the loop is over; "a" is a plain file and "b" a subdirectory that
\* holds "1" and "1x": "b" has id 0 and one sample was read
C6_Witness ==
    /\ pc = "to_categorical"
    /\ DOMAIN corpus = RootNames
    /\ ~corpus[<<97>>].isdir
    /\ corpus[<<98>>].isdir
    /\ DOMAIN corpus[<<98>>].files = FileNames
    /\ labels_index = (<<98>> :> 0)
    /\ Len(texts) = 1

\* C6 second witness: two subdirectories, numbered in the order of their names
C6_TwoDirs ==
    /\ pc = "to_categorical"
    /\ labels_index = (<<97>> :> 0) @@ (<<98>> :> 1)
    /\ Len(texts) = 2

\* C9: the label matrix handed to the classifier has one row per loaded text
\* and len(labels_index) columns, for every corpus layout
C9_OneHotShape ==
    pc = "labelled" =>
        /\ Len(labels) = Len(texts)
        /\ \A k \in 1..Len(labels) : Len(labels[k]) = Cardinality(DOMAIN labels_index)

-----------------------------------------------------------------------------
(* Properties of the encoder, checked under SpecEncode.                     *)

RECURSIVE TokenStream(_)
\* the words of the corpus in reading order
TokenStream(ts) ==
    IF ts = <<>> THEN <<>> ELSE text_to_word_sequence(Head(ts)) \o TokenStream(Tail(ts))

WordsOf(stream) == {stream[p] : p \in 1..Len(stream)}
Frequency(stream, w) == Cardinality({p \in 1..Len(stream) : stream[p] = w})
FirstSeen(stream, w) ==
    CHOOSE p \in 1..Len(stream) : stream[p] = w /\ \A q \in 1..(p - 1) : stream[q] # w

\* C1: every row of data has exactly MAX_SEQUENCE_LENGTH entries, each an
\* integer in [0, MAX_NUM_WORDS), whatever the text's token count
C1_EncodedShape ==
    pc = "encoded" =>
        /\ Len(data) = Len(texts)
        /\ \A k \in 1..Len(data) :
               /\ DOMAIN data[k] = 1..MAX_SEQUENCE_LENGTH
               /\ \A j \in 1..MAX_SEQUENCE_LENGTH :
                      data[k][j] \in 0..(MAX_NUM_WORDS - 1)

\* C1 witness: a text without tokens and a text with more kept tokens than
\* MAX_SEQUENCE_LENGTH have been encoded
C1_Witness ==
    /\ pc = "encoded"
    /\ \E k \in 1..Len(texts) : text_to_word_sequence(texts[k]) = <<>>
    /\ \E k \in 1..Len(texts) : Len(sequences[k]) > MAX_SEQUENCE_LENGTH
    /\ \E k \in 1..Len(texts) : \E j \in 1..MAX_SEQUENCE_LENGTH : data[k][j] > 0

\* C2: a sequence of k < L indices becomes L-k zeros followed by the k indices;
\* a sequence of k > L indices becomes its last L indices, in order
C2_PadPolicy ==
    pc = "encoded" =>
        \A k \in 1..Len(sequences) :
            LET s == sequences[k]
                n == Len(s)
                L == MAX_SEQUENCE_LENGTH
            IN  /\ n < L => /\ \A j \in 1..(L - n) : data[k][j] = 0
                            /\ \A j \in 1..n : data[k][L - n + j] = s[j]
                /\ n > L => \A j \in 1..L : data[k][j] = s[n - L + j]

\* C2 witness: one sequence was padded in front and another was truncated
C2_Witness ==
    /\ pc = "encoded"
    /\ \E k \in 1..Len(sequences) :
           /\ 0 < Len(sequences[k]) /\ Len(sequences[k]) < MAX_SEQUENCE_LENGTH
           /\ data[k][1] = 0
           /\ data[k][MAX_SEQUENCE_LENGTH] = sequences[k][Len(sequences[k])]
    /\ \E k \in 1..Len(sequences) : Len(sequences[k]) > MAX_SEQUENCE_LENGTH

\* C2 second witness: a truncated sequence whose first and last indices differ
\* kept the last one
C2_KeepsLast ==
    /\ pc = "encoded"
    /\ \E k \in 1..Len(sequences) :
           /\ Len(sequences[k]) > MAX_SEQUENCE_LENGTH
           /\ sequences[k][1] # sequences[k][Len(sequences[k])]
           /\ data[k][MAX_SEQUENCE_LENGTH] = sequences[k][Len(sequences[k])]

\* C7: a token is kept exactly when its word is in word_index with an index
\* below MAX_NUM_WORDS, kept tokens stay in text order, and word_index holds
\* every distinct word of the corpus, also those with an index >= MAX_NUM_WORDS
C7_KeptTokens ==
    pc \in {"pad_sequences", "encoded"} =>
        /\ DOMAIN word_index = WordsOf(TokenStream(texts))
        /\ \A k \in 1..Len(texts) :
               LET kept == SelectSeq(text_to_word_sequence(texts[k]),
                                     LAMBDA w : /\ w \in DOMAIN word_index
                                                /\ word_index[w] < MAX_NUM_WORDS)
               IN  sequences[k] = [j \in 1..Len(kept) |-> word_index[kept[j]]]

\* C7 witness: a word with index MAX_NUM_WORDS is in word_index, and a text lost
\* some of its tokens but not all
C7_Witness ==
    /\ pc = "pad_sequences"
    /\ \E w \in DOMAIN word_index : word_index[w] = MAX_NUM_WORDS
    /\ \E k \in 1..Len(texts) :
           /\ 0 < Len(sequences[k])
           /\ Len(sequences[k]) < Len(text_to_word_sequence(texts[k]))

\* C10: word_index numbers the distinct words of the corpus 1..V without gaps
\* or duplicates, by descending frequency, equal frequencies by first occurrence
C10_VocabularyOrder ==
    pc # "fit_on_texts" =>
        LET stream == TokenStream(texts)
            words == WordsOf(stream)
            freq == [w \in words |-> Frequency(stream, w)]
            first == [w \in words |-> FirstSeen(stream, w)]
        IN  /\ DOMAIN word_index = words
            /\ {word_index[w] : w \in words} = 1..Cardinality(words)
            /\ \A v, w \in words :
                   /\ freq[v] > freq[w] => word_index[v] < word_index[w]
                   /\ (freq[v] = freq[w] /\ first[v] < first[w])
                          => word_index[v] < word_index[w]

\* C10 witness: a word that occurs later but more often precedes two words of
\* equal frequency, which keep their order of first occurrence
C10_Witness ==
    /\ pc = "texts_to_sequences"
    /\ Cardinality(DOMAIN word_index) = 3
    /\ LET stream == TokenStream(texts)
           u == CHOOSE x \in DOMAIN word_index : word_index[x] = 1
           v == CHOOSE x \in DOMAIN word_index : word_index[x] = 2
           w == CHOOSE x \in DOMAIN word_index : word_index[x] = 3
       IN  /\ FirstSeen(stream, v) < FirstSeen(stream, u)
           /\ Frequency(stream, u) > Frequency(stream, v)
           /\ Frequency(stream, v) = Frequency(stream, w)
           /\ FirstSeen(stream, v) < FirstSeen(stream, w)

-----------------------------------------------------------------------------
(* Properties of the embedding stage, checked under SpecEmbed.              *)

\* the largest index of the vocabulary, 0 for an empty one
LargestIndex ==
    IF DOMAIN word_index = {} THEN 0
    ELSE CHOOSE i \in {word_index[w] : w \in DOMAIN word_index} :
             \A w \in DOMAIN word_index : word_index[w] <= i

\* C3: the embedding matrix has num_rows = min(MAX_NUM_WORDS, largest index + 1)
\* rows of EMBEDDING_DIM entries: rows 0..V when V + 1 <= MAX_NUM_WORDS for a
\* vocabulary of V words, MAX_NUM_WORDS rows otherwise
C3_MatrixShape ==
    pc \in {"build", "built"} =>
        LET V == Cardinality(DOMAIN word_index)
            rows == DOMAIN embedding_matrix
        IN  /\ num_words = Min(MAX_NUM_WORDS, LargestIndex + 1)
            /\ rows = 0..(num_words - 1)
            /\ \A r \in rows : DOMAIN embedding_matrix[r] = 1..EMBEDDING_DIM
            /\ V + 1 <= MAX_NUM_WORDS => rows = 0..V
            /\ V + 1 > MAX_NUM_WORDS => Cardinality(rows) = MAX_NUM_WORDS

\* C3 witness: a matrix with rows 0..2 was built for a vocabulary of two words
\* with MAX_NUM_WORDS = 3, and its row 2 holds a vector
C3_Witness ==
    /\ pc = "built"
    /\ Cardinality(DOMAIN word_index) = 2
    /\ MAX_NUM_WORDS = 3
    /\ DOMAIN embedding_matrix = 0..2
    /\ \E c \in 1..EMBEDDING_DIM : embedding_matrix[2][c] # 0

\* C4: after the builder finishes, row i of every vocabulary entry (word, i)
\* with i < num_rows equals the word's vector of the embedding index, or is
\* all-zero when the word is not in the embedding index; row 0 is all-zero; and
\* no row >= num_rows is ever written
C4_RowsAreVectors ==
    /\ err # "build: IndexError"
    /\ pc = "built" =>
           /\ \A c \in 1..EMBEDDING_DIM : embedding_matrix[0][c] = 0
           /\ \A w \in DOMAIN word_index :
                  word_index[w] < num_words =>
                      IF w \in DOMAIN embeddings_index
                      THEN embedding_matrix[word_index[w]] = embeddings_index[w]
                      ELSE \A c \in 1..EMBEDDING_DIM : embedding_matrix[word_index[w]][c] = 0

\* C4 restricted to an embedding index whose vectors all have EMBEDDING_DIM
\* entries: what the builder does when the parser delivered what C8 promises
C4_OnWellFormedIndex ==
    (\A w \in DOMAIN embeddings_index : Len(embeddings_index[w]) = EMBEDDING_DIM)
        => C4_RowsAreVectors /\ err # "build: ValueError"

\* C8: parsing is all-or-nothing: a line whose coefficient count differs from
\* EMBEDDING_DIM stops the run, so the embedding index never holds a vector of
\* another dimension and no matrix is built from such a file
C8_AllOrNothing ==
    \A w \in DOMAIN embeddings_index : Len(embeddings_index[w]) = EMBEDDING_DIM


-----------------------------------------------------------------------------
(* Further properties of the encoder, checked under SpecEncode.             *)

\* the indices that occur in sequence s
IndicesIn(s) == {s[j] : j \in 1..Len(s)}

\* C11: only the MAX_NUM_WORDS most frequent words are considered: each word
\* with an index in 1..MAX_NUM_WORDS appears in the encoded sequence of every
\* text it occurs in, and every word with a larger index is dropped
C11_TopWordsKept ==
    pc \in {"pad_sequences", "encoded"} =>
        \A k \in 1..Len(texts) :
            \A w \in WordsOf(text_to_word_sequence(texts[k])) :
                (word_index[w] <= MAX_NUM_WORDS) <=> (word_index[w] \in IndicesIn(sequences[k]))

\* what the code does instead: the words that can appear are those with an
\* index in 1..MAX_NUM_WORDS - 1
C11_TopWordsButOne ==
    pc \in {"pad_sequences", "encoded"} =>
        \A k \in 1..Len(texts) :
            \A w \in WordsOf(text_to_word_sequence(texts[k])) :
                (word_index[w] < MAX_NUM_WORDS) <=> (word_index[w] \in IndicesIn(sequences[k]))

\* C14: every entry of data is a row index of the embedding matrix:
\* 0 <= e < num_words = min(MAX_NUM_WORDS, len(word_index) + 1)
C14_EntriesAreRows ==
    pc = "encoded" =>
        \A k \in 1..Len(data) :
            \A j \in 1..Len(data[k]) :
                /\ 0 <= data[k][j]
                /\ data[k][j] < NumWords(MAX_NUM_WORDS, word_index)

\* C14 witness: an entry equal to num_words - 1 was encoded, once with the
\* vocabulary as the limit and once with MAX_NUM_WORDS as the limit
C14_Witness ==
    /\ pc = "encoded"
    /\ Cardinality(DOMAIN word_index) >= MAX_NUM_WORDS
    /\ MAX_NUM_WORDS > 1
    /\ \E k \in 1..Len(data) : \E j \in 1..Len(data[k]) : data[k][j] = MAX_NUM_WORDS - 1
    /\ \E k \in 1..Len(data) : \E j \in 1..Len(data[k]) : data[k][j] = 0

\* C14 second witness: the vocabulary is smaller than MAX_NUM_WORDS and its
\* last word was encoded
C14_SmallVocabulary ==
    /\ pc = "encoded"
    /\ Cardinality(DOMAIN word_index) + 1 < MAX_NUM_WORDS
    /\ \E k \in 1..Len(data) : \E j \in 1..Len(data[k]) :
           data[k][j] = Cardinality(DOMAIN word_index)


-----------------------------------------------------------------------------
(* Properties of the builder run twice, checked under SpecRebuild.          *)

\* C13: the builder is idempotent and has no side effect on its inputs: the
\* second run on the same word_index, MAX_NUM_WORDS and embeddings_index ends
\* with the matrix the first run left, and no step of the builder changes
\* word_index or embeddings_index
C13_Idempotent ==
    [][/\ (pc' = "built" /\ runs' = 2) => embedding_matrix' = first_matrix'
       /\ pc \in {"allocate", "build"} =>
              /\ word_index' = word_index
              /\ embeddings_index' = embeddings_index
              /\ MAX_NUM_WORDS' = MAX_NUM_WORDS]_vars

\* C13 witness: the second run has finished on a matrix that holds a vector in
\* one row and zeros in the row of a word the embedding index does not have
C13_Witness ==
    /\ pc = "built"
    /\ runs = 2
    /\ \E w \in DOMAIN word_index :
           /\ w \in DOMAIN embeddings_index
           /\ word_index[w] \in DOMAIN embedding_matrix
           /\ \E c \in 1..EMBEDDING_DIM : embedding_matrix[word_index[w]][c] # 0
    /\ \E w \in DOMAIN word_index :
           /\ w \notin DOMAIN embeddings_index
           /\ word_index[w] \in DOMAIN embedding_matrix


-----------------------------------------------------------------------------
(* The train/validation split at the end of the tokenizer cell.             *)

\* the permutations np.random.shuffle can leave in np.arange(n): 0-based indices
Shuffles(n) ==
    {p \in [1..n -> 0..(n - 1)] : \A i, j \in 1..n : p[i] = p[j] => i = j}

\* a[indices]: row i of the result is row indices[i] of a (0-based)
Take(a, idx) == [i \in 1..Len(idx) |-> a[idx[i] + 1]]

\* int(VALIDATION_SPLIT * n) with VALIDATION_SPLIT = 0.2
ValidationCount(n) == (2 * n) \div 10

\* a slice bound as Python resolves it on a sequence of length n: a negative
\* bound counts from the end, and -0 is 0
SliceBound(k, n) == IF k < 0 THEN (IF k + n < 0 THEN 0 ELSE k + n) ELSE Min(k, n)

\* a[:stop] and a[start:]
SliceTo(a, stop) == SubSeq(a, 1, SliceBound(stop, Len(a)))
SliceFrom(a, start) == SubSeq(a, SliceBound(start, Len(a)) + 1, Len(a))

\* indices = np.arange(data.shape[0]); np.random.shuffle(indices)
Shuffle ==
    /\ pc = "shuffle"
    /\ indices' \in Shuffles(Len(data))
    /\ pc' = "reindex"
    /\ UNCHANGED <<err, loadVars, MAX_NUM_WORDS, MAX_SEQUENCE_LENGTH, EMBEDDING_DIM,
                   rebuildVars, layerVars, word_index, encodeVars, embedVars,
                   num_validation_samples, x_train, y_train, x_val, y_val>>

\* data = data[indices]; labels = labels[indices]; num_validation_samples = int(...)
Reindex ==
    /\ pc = "reindex"
    /\ data' = Take(data, indices)
    /\ labels' = Take(labels, indices)
    /\ num_validation_samples' = ValidationCount(Len(data))
    /\ pc' = "split"
    /\ UNCHANGED <<err, corpus, raw, ni, texts, labels_index, MAX_NUM_WORDS,
                   MAX_SEQUENCE_LENGTH, EMBEDDING_DIM, rebuildVars, layerVars, word_index,
                   sequences, embedVars, indices, x_train, y_train, x_val, y_val>>

\* x_train, y_train, x_val, y_val are sliced off data and labels
Split ==
    /\ pc = "split"
    /\ x_train' = SliceTo(data, 0 - num_validation_samples)
    /\ y_train' = SliceTo(labels, 0 - num_validation_samples)
    /\ x_val' = SliceFrom(data, 0 - num_validation_samples)
    /\ y_val' = SliceFrom(labels, 0 - num_validation_samples)
    /\ pc' = "split_done"
    /\ UNCHANGED <<err, loadVars, MAX_NUM_WORDS, MAX_SEQUENCE_LENGTH, EMBEDDING_DIM,
                   rebuildVars, layerVars, word_index, encodeVars, embedVars,
                   indices, num_validation_samples>>

\* the label id lists the loader can record: directory after directory, so the
\* ids never decrease and start at 0
LabelLists(n) ==
    {l \in [1..n -> 0..1] : l[1] = 0 /\ \A i \in 1..(n - 1) : l[i] <= l[i + 1]}

\* the split on any encoded corpus of 1..MaxRows samples (to_categorical has
\* raised on an empty one); the variables the split does not read are held at
\* their initial values
InitSplit ==
    /\ pc = "shuffle"
    /\ err = "none"
    /\ corpus = EmptyDict
    /\ raw = <<>>
    /\ ni = 1
    /\ texts = <<>>
    /\ labels_index = EmptyDict
    /\ \E n \in 1..MaxRows :
           /\ labels \in {to_categorical(l) : l \in LabelLists(n)}
           /\ data \in [1..n -> [1..1 -> 0..1]]
    /\ MAX_NUM_WORDS = 2
    /\ MAX_SEQUENCE_LENGTH = 1
    /\ EMBEDDING_DIM = 1
    /\ word_index = EmptyDict
    /\ sequences = <<>>
    /\ embeddings_index = EmptyDict
    /\ num_words = 0
    /\ embedding_matrix = <<>>
    /\ bi = 1
    /\ LaterCellsInit

NextSplit == Shuffle \/ Reindex \/ Split

SpecSplit == InitSplit /\ [][NextSplit]_vars

\* C15: the split partitions the shuffled samples: data and labels are permuted
\* by the same indices, the validation set is the last
\* v = floor(VALIDATION_SPLIT * n) rows and the training set the first n - v rows
\* of each, so that training and validation rows together are every row once
C15_SplitPartitions ==
    [][/\ pc = "reindex" =>
              /\ Len(data') = Len(data) /\ Len(labels') = Len(data)
              /\ \A i \in 1..Len(data) :
                     \E j \in 1..Len(data) :
                         /\ indices[i] = j - 1
                         /\ data'[i] = data[j]
                         /\ labels'[i] = labels[j]
       /\ pc = "split" =>
              LET n == Len(data)
                  v == (2 * n) \div 10
              IN  /\ x_val' = SubSeq(data, n - v + 1, n)
                  /\ y_val' = SubSeq(labels, n - v + 1, n)
                  /\ x_train' = SubSeq(data, 1, n - v)
                  /\ y_train' = SubSeq(labels, 1, n - v)
                  /\ x_train' \o x_val' = data
                  /\ y_train' \o y_val' = labels]_vars

\* what the code does for n < 5: no row is held out, int(0.2 * n) = 0, and the
\* two slices bounded by -0 give an empty training set and a validation set of
\* every row
C15_SmallCorpus ==
    (pc = "split_done" /\ Len(data) < 5) =>
        /\ num_validation_samples = 0
        /\ x_train = <<>> /\ y_train = <<>>
        /\ x_val = data /\ y_val = labels

\* from five samples on the split is the partition of C15
C15_FromFiveSamples ==
    (pc = "split_done" /\ Len(data) >= 5) =>
        LET n == Len(data)
            v == (2 * n) \div 10
        IN  /\ v >= 1
            /\ x_val = SubSeq(data, n - v + 1, n)
            /\ y_val = SubSeq(labels, n - v + 1, n)
            /\ x_train = SubSeq(data, 1, n - v)
            /\ y_train = SubSeq(labels, 1, n - v)

\* a split of five samples is reached
C15_FiveSplit == pc = "split_done" /\ Len(data) = 5 /\ Len(x_val) = 1 /\ Len(x_train) = 4


-----------------------------------------------------------------------------
(* The Embedding layer cells and the three training cells, in document      *)
(* order. A layer is an object: embedding_layer and model hold its position *)
(* in layers, so that two names of one layer share its weights.             *)

\* the matrix the builder cell leaves on a well-formed embedding index
BuiltMatrix(index, max_words, dim, emb) ==
    [i \in 0..(NumWords(max_words, index) - 1) |->
        IF \E w \in DOMAIN index \cap DOMAIN emb : index[w] = i
        THEN emb[CHOOSE w \in DOMAIN index \cap DOMAIN emb : index[w] = i]
        ELSE [c \in 1..dim |-> 0]]

\* Embedding(input_dim, output_dim, embeddings_initializer=..., trainable=...):
\* a layer that has not been called yet has no weights
Embedding(input_dim, output_dim, initializer, value, trainable) ==
    [input_dim |-> input_dim, output_dim |-> output_dim,
     embeddings_initializer |-> initializer, value |-> value,
     trainable |-> trainable, built |-> FALSE, weights |-> <<>>]

\* the weights add_weight can create for a layer: Constant(value) gives the
\* value, the default initializer 'uniform' gives random entries
InitialWeights(layer) ==
    IF layer.embeddings_initializer = "constant" THEN {layer.value}
    ELSE [0..(layer.input_dim - 1) -> [1..layer.output_dim -> {0, 1}]]

\* the weights a training can leave in a trainable layer: as they were, or
\* with an entry moved
Updates(w) ==
    {w} \cup {[w EXCEPT ![r][c] = @ + 1] : r \in DOMAIN w, c \in 1..Len(w[0])}

\* embedding_layer = Embedding(...): the name is bound to a new layer
Bind(layer, here, then) ==
    /\ pc = here
    /\ layers' = Append(layers, layer)
    /\ embedding_layer' = Len(layers) + 1
    /\ pc' = then
    /\ UNCHANGED <<err, loadVars, MAX_NUM_WORDS, MAX_SEQUENCE_LENGTH, EMBEDDING_DIM,
                   rebuildVars, splitVars, word_index, encodeVars, embedVars, model>>

\* "not using pre-trained word embeddings"
RandomLayer ==
    Bind(Embedding(Cardinality(DOMAIN word_index) + 1, EMBEDDING_DIM, "uniform", <<>>, TRUE),
         "layer_random", "layer_pretrained")

\* "using pre-trained word embeddings"
PretrainedLayer ==
    Bind(Embedding(num_words, EMBEDDING_DIM, "constant", embedding_matrix, FALSE),
         "layer_pretrained", "layer_finetune")

\* "fine-tuning the Embedding layer"
FineTuningLayer ==
    Bind(Embedding(num_words, EMBEDDING_DIM, "constant", embedding_matrix, TRUE),
         "layer_finetune", "build_random")

\* embedded_sequences = embedding_layer(sequence_input) ... model.compile(...):
\* the first call of a layer creates its weights, a later call reuses them
BuildModel(here, then) ==
    /\ pc = here
    /\ \E w \in InitialWeights(layers[embedding_layer]) :
           layers' = IF layers[embedding_layer].built THEN layers
                     ELSE [layers EXCEPT ![embedding_layer].built = TRUE,
                                         ![embedding_layer].weights = w]
    /\ model' = embedding_layer
    /\ pc' = then
    /\ UNCHANGED <<err, loadVars, MAX_NUM_WORDS, MAX_SEQUENCE_LENGTH, EMBEDDING_DIM,
                   rebuildVars, splitVars, word_index, encodeVars, embedVars,
                   embedding_layer>>

\* model.fit(...): the weights of a trainable layer are updated, those of a
\* frozen layer are not
Fit(here, then) ==
    /\ pc = here
    /\ \E w \in Updates(layers[model].weights) :
           layers' = IF layers[model].trainable THEN [layers EXCEPT ![model].weights = w]
                     ELSE layers
    /\ pc' = then
    /\ UNCHANGED <<err, loadVars, MAX_NUM_WORDS, MAX_SEQUENCE_LENGTH, EMBEDDING_DIM,
                   rebuildVars, splitVars, word_index, encodeVars, embedVars,
                   embedding_layer, model>>

\* the training cell "not using pre-trained word embeddings"
BuildRandom == BuildModel("build_random", "fit_random")
FitRandom == Fit("fit_random", "build_pretrained")

\* the training cell "using pre-trained word embeddings"
BuildPretrained == BuildModel("build_pretrained", "fit_pretrained")
FitPretrained == Fit("fit_pretrained", "build_finetune")

\* the training cell "fine-tuning the Embedding layer"
BuildFineTuning == BuildModel("build_finetune", "fit_finetune")
FitFineTuning == Fit("fit_finetune", "cells_done")

\* the well-formed embedding indexes of dimension dim
CleanIndexes(dim) == UNION {[S -> [1..dim -> {1, 2}]] : S \in SUBSET EmbWords}

\* the cells from the first Embedding layer on, after the builder cell has run on
\* a well-formed embedding file; the variables these cells do not read are held
\* at their initial values
InitCells ==
    /\ pc = "layer_random"
    /\ err = "none"
    /\ corpus = EmptyDict
    /\ raw = <<>>
    /\ ni = 1
    /\ texts = <<>>
    /\ labels_index = EmptyDict
    /\ labels = <<>>
    /\ MAX_NUM_WORDS \in 1..MaxNumWords
    /\ MAX_SEQUENCE_LENGTH = 1
    /\ EMBEDDING_DIM \in 1..MaxDim
    /\ word_index \in WordIndexes
    /\ sequences = <<>>
    /\ data = <<>>
    /\ embeddings_index \in CleanIndexes(EMBEDDING_DIM)
    /\ num_words = NumWords(MAX_NUM_WORDS, word_index)
    /\ embedding_matrix =
           BuiltMatrix(word_index, MAX_NUM_WORDS, EMBEDDING_DIM, embeddings_index)
    /\ bi = Cardinality(DOMAIN word_index) + 1
    /\ LaterCellsInit

NextCells ==
    \/ RandomLayer \/ PretrainedLayer \/ FineTuningLayer
    \/ BuildRandom \/ FitRandom
    \/ BuildPretrained \/ FitPretrained
    \/ BuildFineTuning \/ FitFineTuning

SpecCells == InitCells /\ [][NextCells]_vars

\* C12: in document order the model trained in the cell "using pre-trained word
\* embeddings" has an Embedding layer initialised from the embedding matrix and
\* frozen, so that its weights are the embedding matrix before and after that
\* training
C12_PretrainedFrozen ==
    pc \in {"fit_pretrained", "build_finetune"} =>
        /\ layers[model].embeddings_initializer = "constant"
        /\ layers[model].value = embedding_matrix
        /\ ~layers[model].trainable
        /\ layers[model].weights = embedding_matrix

\* what the code does: embedding_layer is bound three times before the first
\* training cell, so every model is built on the third, trainable layer
C12_LastLayerEverywhere ==
    pc \in {"fit_random", "build_pretrained", "fit_pretrained", "build_finetune",
            "fit_finetune", "cells_done"} =>
        /\ Len(layers) = 3
        /\ model = 3
        /\ layers[3].trainable
        /\ ~layers[1].built /\ ~layers[2].built

\* the training "using pre-trained word embeddings" starts from weights the
\* first training has already moved away from the embedding matrix
C12_WeightsMoved ==
    /\ pc = "fit_pretrained"
    /\ layers[model].weights # embedding_matrix

\* the matrix InitCells starts from is the one the builder leaves (SpecEmbed)
BuiltMatrixIsBuilt ==
    (pc = "built" /\ \A w \in DOMAIN embeddings_index :
                         Len(embeddings_index[w]) = EMBEDDING_DIM) =>
        embedding_matrix =
            BuiltMatrix(word_index, MAX_NUM_WORDS, EMBEDDING_DIM, embeddings_index)

=============================================================================
